---- MODULE Spec2Model ----
(***************************************************************************)
(* video-sampler: the sampling engines (VideoSampler, SegmentSampler) and  *)
(* the Worker that runs one of them on a producer thread and persists its  *)
(* batches from a polled queue (src/video_sampler/sampler.py).             *)
(*                                                                         *)
(* Times are whole seconds; segment times are milliseconds, converted as   *)
(* the code converts them (end_time / 1000).  The frame buffer and the     *)
(* gate are collaborators whose code is outside sampler.py: they are       *)
(* modelled by their contract, each call choosing among the outcomes the   *)
(* contract allows.                                                        *)
(***************************************************************************)
EXTENDS Integers, Sequences, FiniteSets, TLC

\* ---------------------------------------------------------------- bounds
MaxFrames == 2        \* frames the decoder hands out, over all launches
MaxTime == 1          \* largest frame timestamp / segment boundary (s)
MaxInterval == 1      \* largest configured min_frame_interval_sec (s)
MaxSegments == 2      \* segments the segment generator can supply
MaxLaunches == 2      \* calls of Worker.launch
MaxHeld == 1          \* frames the buffer, and the gate, can hold back
MaxBatch == 2         \* frame objects in one batch handed to queue_reader
MaxQueued == 2        \* batches waiting on the queue when queue_reader starts

\* ------------------------------------------------------ program constants
PrevTimeInit == -10
MsPerSec == 1000

VARIABLES
    \* configuration, fixed at construction
    engine,                     \* "base" (VideoSampler) | "segment" (SegmentSampler)
    devnull,                    \* Worker.devnull
    min_frame_interval_sec,     \* cfg.min_frame_interval_sec
    \* Worker
    q,                          \* Worker.q: FIFO of batches
    launchPc,                   \* "idle" | "running" | "joined"
    consPc,                     \* queue_reader: "idle" | "reading" | "returned"
    output_path,                \* argument of the current / last launch
    lastResult,                 \* "none" | "returned" | "ValueError"
    launches,                   \* launch calls made so far
    dirs,                       \* directories created by os.makedirs
    persisted,                  \* frame.save calls of the current launch, in order
    reported,                   \* the stats launch read for its report: <<stats>>, or <<>>
    \* producer thread / engine
    prodPc,                     \* "idle" | "start" | "decode" | "seek" | "flush" | "done" | "dead"
    stats,                      \* VideoSampler.stats
    frame_buffer,               \* frames held by the frame buffer
    gateHeld,                   \* frames held back by the gate
    prev_time,
    frame_indx,                 \* decode position of the next frame
    ftime,                      \* timestamp of the frame being classified
    lastTime,                   \* decoder: timestamp of the last frame handed out
    framesOut,                  \* decoder: frames handed out so far, over all launches
    segPulled,                  \* segment generator: segments supplied so far
    segExhausted,               \* segment generator: has signalled exhaustion
    segLastStart,               \* segment generator: start_time (ms) of the last segment
    segment_boundary_start_sec,
    segment_boundary_end_sec,
    \* history of the current launch's run
    enq,                        \* batches put on the queue, in order
    classified,                 \* frames counted in total, in order
    pulled,                     \* generator positions pulled, in order
    sumN,                       \* sum of the N of every GatedObject returned
    groups,                     \* buffer groups handed to the gate
    flushed,                    \* flush_buffer has run
    runEnd,                     \* "none" | "completed" | "failed" | "crashed"
    decodedLog,                 \* frames the decoder handed out: <<time>>, or <<>> for an artifact
    prevRun                     \* runEnd and final stats of the launch before the current one

cfgVars == <<engine, devnull, min_frame_interval_sec>>
decoderVars == <<lastTime, framesOut>>
callerVars == <<launchPc, consPc, output_path, lastResult, launches, dirs, persisted, reported>>
workerVars == <<q, callerVars>>
segVars == <<segPulled, segExhausted, segLastStart, segment_boundary_start_sec,
             segment_boundary_end_sec, pulled>>
engineVars == <<stats, frame_buffer, gateHeld, prev_time, frame_indx, ftime, lastTime, framesOut>>
histVars == <<enq, classified, sumN, groups, flushed, runEnd>>
vars == <<cfgVars, workerVars, prodPc, engineVars, segVars, histVars, decodedLog, prevRun>>

\* ------------------------------------------------------------ data model
StatKeys == {"total", "decoded", "produced", "gated"}

\* Counter(): every key reads 0
EmptyStats == [k \in StatKeys |-> 0]

\* mutant: sample() forgets stats.clear()
StatsClearSkipped(s) == s

\* stats.clear()
StatsClear(s) == EmptyStats

\* mutant: sample() forgets frame_buffer.clear()
BufferClearSkipped(buf) == buf

\* frame_buffer.clear()
BufferClear(buf) == <<>>

\* FrameObject(frame, metadata): the frame is the image the buffer was given
FrameObject(meta) ==
    [frame |-> "image", frame_time |-> meta.frame_time,
     frame_indx |-> meta.frame_indx, end |-> FALSE]

\* PROCESSING_DONE_ITERABLE: one FrameObject, frame None, metadata {"end": True}
PROCESSING_DONE_ITERABLE ==
    << [frame |-> "none", frame_time |-> -1, frame_indx |-> -1, end |-> TRUE] >>

IsTerminal(frame_object) == frame_object.end

\* segment boundary in seconds: next_segment.end_time / 1000
SegSec(ms) == ms \div MsPerSec

Last(s) == s[Len(s)]

RECURSIVE Flatten(_)
Flatten(batches) ==
    IF batches = <<>> THEN <<>> ELSE Head(batches) \o Flatten(Tail(batches))

\* --------------------------------------------------- buffer and gate contract
BufferChoices == {"dup", "keep", "emit"}
GateChoices == {"pass", "drop", "hold"}
FlushChoices == {"release", "discard"}

\* frame_buffer.add(frame, metadata): nothing, or one completed group
BufferAdd(buf, item, c) ==
    CASE c = "dup"  -> [buf |-> buf, res |-> <<>>]
      [] c = "keep" -> [buf |-> Append(buf, item), res |-> <<>>]
      [] OTHER      -> [buf |-> Tail(Append(buf, item)), res |-> <<Head(Append(buf, item))>>]

BufferAddAllowed(buf, c) == c = "keep" => Len(buf) < MaxHeld

\* gate(frame, metadata): GatedObject(frames, N).  The gate passes the frame
\* (together with what it held back), discards it, or holds it back.
GateCall(held, item, c) ==
    CASE c = "pass" -> [held |-> <<>>,
                        frames |-> [i \in 1..Len(held) + 1 |->
                                      FrameObject(Append(held, item)[i])],
                        N |-> 0]
      [] c = "drop" -> [held |-> held, frames |-> <<>>, N |-> 1]
      [] OTHER      -> [held |-> Append(held, item), frames |-> <<>>, N |-> 0]

GateCallAllowed(held, c) == c = "hold" => Len(held) < MaxHeld

\* gate.flush(): GatedObject(frames, N), the gate holds nothing afterwards
GateFlush(held, c) ==
    IF c = "release"
    THEN [held |-> <<>>,
          frames |-> [i \in 1..Len(held) |-> FrameObject(held[i])],
          N |-> 0]
    ELSE [held |-> <<>>, frames |-> <<>>, N |-> Len(held)]

\* cfg.min_frame_interval_sec: any non-negative number, among them one as long
\* as the distance from the initial prev_time to the latest timestamp
Intervals == (0..MaxInterval) \cup {MaxTime - PrevTimeInit}

\* ----------------------------------------------------------------- Init
Init ==
    /\ engine \in {"base", "segment"}
    /\ devnull \in BOOLEAN
    /\ min_frame_interval_sec \in Intervals
    /\ q = <<>>
    /\ launchPc = "idle"
    /\ consPc = "idle"
    /\ output_path = ""
    /\ lastResult = "none"
    /\ launches = 0
    /\ dirs = {}
    /\ persisted = <<>>
    /\ reported = <<>>
    /\ prodPc = "idle"
    /\ stats = EmptyStats
    /\ frame_buffer = <<>>
    /\ gateHeld = <<>>
    /\ prev_time = PrevTimeInit
    /\ frame_indx = 0
    /\ ftime = -1
    /\ lastTime = 0
    /\ framesOut = 0
    /\ segPulled = 0
    /\ segExhausted = FALSE
    /\ segLastStart = 0
    /\ segment_boundary_start_sec = 0
    /\ segment_boundary_end_sec = 0
    /\ enq = <<>>
    /\ classified = <<>>
    /\ pulled = <<>>
    /\ sumN = 0
    /\ groups = 0
    /\ flushed = FALSE
    /\ runEnd = "none"
    /\ decodedLog = <<>>
    /\ prevRun = [end |-> "none", stats |-> EmptyStats]

\* ------------------------------------------------------------ the queue
\* q.put(item), with the history of what was put
QueuePut(batches) ==
    /\ q' = q \o batches
    /\ enq' = enq \o batches

\* mutant: the batch of a GatedObject is yielded whether or not it has frames
YieldedAlways(frames) == <<frames>>

\* `if gated_obj.frames: yield gated_obj.frames`: a GatedObject's frames are
\* yielded (and put) only when there are any
Yielded(frames) == IF frames = <<>> THEN <<>> ELSE <<frames>>

\* mutant: the handler logs the recognized error and puts no sentinel
WriteQueueExceptNoSentinel(kind) ==
    /\ prodPc' = IF kind = "recognized" THEN "done" ELSE "dead"
    /\ runEnd' = IF kind = "recognized" THEN "failed" ELSE "crashed"
    /\ UNCHANGED <<q, enq>>

\* ------------------------------------------------------------ write_queue
\* An exception leaves sample() inside write_queue's try block.  The two
\* recognized av errors are caught: the producer logs and puts the sentinel.
\* Anything else (another av error, the RuntimeError Python makes of a
\* StopIteration raised inside a generator) is not caught: the thread dies.
WriteQueueExcept(kind) ==
    IF kind = "recognized"
    THEN /\ QueuePut(<<PROCESSING_DONE_ITERABLE>>)
         /\ prodPc' = "done"
         /\ runEnd' = "failed"
    ELSE /\ prodPc' = "dead"
         /\ runEnd' = "crashed"
         /\ UNCHANGED <<q, enq>>

ErrorKinds == {"recognized", "other"}

\* ------------------------------------------------------ segment generator
SegmentTimes == {t * MsPerSec : t \in 0..MaxTime}

\* next(self.segment_generator) returns a segment: the boundaries move to it
PullSegment ==
    /\ ~segExhausted
    /\ segPulled < MaxSegments
    /\ \E start_time \in SegmentTimes, end_time \in SegmentTimes :
         /\ segLastStart <= start_time
         /\ start_time <= end_time
         /\ segLastStart' = start_time
         /\ segment_boundary_end_sec' = SegSec(end_time)
         /\ segment_boundary_start_sec' = SegSec(start_time)
    /\ segPulled' = segPulled + 1
    /\ pulled' = Append(pulled, segPulled + 1)
    /\ UNCHANGED segExhausted

\* next(self.segment_generator) raises StopIteration
PullExhausted ==
    /\ segExhausted' = TRUE
    /\ UNCHANGED <<segPulled, segLastStart, segment_boundary_start_sec,
                   segment_boundary_end_sec, pulled>>

\* --------------------------------------------------------------- sample
\* av.open(video_path) and the stream set-up
OpenContainer ==
    \/ /\ prodPc' = "decode"
       /\ UNCHANGED <<q, enq, runEnd>>
    \/ \E kind \in ErrorKinds : WriteQueueExcept(kind)

\* The start of sample(): reset, (segment engine) the first pull, open.
SampleStart ==
    /\ prodPc = "start"
    /\ stats' = StatsClear(stats)
    /\ frame_buffer' = BufferClear(frame_buffer)
    /\ prev_time' = PrevTimeInit
    /\ frame_indx' = 0
    /\ ftime' = -1
    /\ lastTime' = 0
    /\ \/ /\ engine = "base"
          /\ OpenContainer
          /\ UNCHANGED segVars
       \/ /\ engine = "segment"
          /\ PullSegment
          /\ OpenContainer
       \/ /\ engine = "segment"
          /\ PullExhausted
          /\ WriteQueueExcept("other")
    /\ UNCHANGED <<cfgVars, prevRun, decodedLog, callerVars, gateHeld, framesOut, classified, sumN, groups, flushed>>

\* mutant: the interval filter compares against 0, not the configured interval
TooSoonNoInterval(t) == t - prev_time < 0

\* time_diff < self.cfg.min_frame_interval_sec
TooSoon(t) == t - prev_time < min_frame_interval_sec

\* One frame with a readable timestamp reaches the interval filter: total,
\* the filter, and for a frame that passes the buffer, the gate and the yield.
IntervalFilter(t) ==
    LET frame_meta == [frame_time |-> t, frame_indx |-> frame_indx]
        entry(acc) == [frame_time |-> t, frame_indx |-> frame_indx, accepted |-> acc,
                       seg |-> IF engine = "segment" THEN segPulled ELSE 0,
                       seg_start |-> segment_boundary_start_sec,
                       seg_end |-> segment_boundary_end_sec]
    IN
    \/ /\ TooSoon(t)
       /\ stats' = [stats EXCEPT !.total = @ + 1]
       /\ classified' = Append(classified, entry(FALSE))
       /\ UNCHANGED <<prev_time, frame_buffer, gateHeld, q, enq, sumN, groups>>
    \/ /\ ~TooSoon(t)
       /\ prev_time' = t
       /\ classified' = Append(classified, entry(TRUE))
       /\ \E bc \in BufferChoices :
            /\ BufferAddAllowed(frame_buffer, bc)
            /\ LET b == BufferAdd(frame_buffer, frame_meta, bc) IN
               /\ frame_buffer' = b.buf
               /\ \/ /\ b.res = <<>>
                     /\ stats' = [stats EXCEPT !.total = @ + 1, !.decoded = @ + 1]
                     /\ UNCHANGED <<gateHeld, q, enq, sumN, groups>>
                  \/ /\ b.res # <<>>
                     /\ \E gc \in GateChoices :
                          /\ GateCallAllowed(gateHeld, gc)
                          /\ LET gated_obj == GateCall(gateHeld, b.res[1], gc) IN
                             /\ gateHeld' = gated_obj.held
                             /\ stats' = [stats EXCEPT !.total = @ + 1,
                                                       !.decoded = @ + 1,
                                                       !.produced = @ + 1,
                                                       !.gated = @ + gated_obj.N]
                             /\ sumN' = sumN + gated_obj.N
                             /\ groups' = groups + 1
                             /\ QueuePut(Yielded(gated_obj.frames))

\* mutant: a null frame is not given a decode position
DecodeArtifactUnnumbered ==
    /\ prodPc = "decode"
    /\ framesOut < MaxFrames
    /\ framesOut' = framesOut + 1
    /\ frame_indx' = frame_indx
    /\ decodedLog' = Append(decodedLog, <<>>)
    /\ UNCHANGED <<cfgVars, prevRun, workerVars, prodPc, stats, frame_buffer, gateHeld, prev_time,
                   ftime, lastTime, segVars, histVars>>

\* the decoder hands out a null frame, or one without a readable timestamp
DecodeArtifact ==
    /\ prodPc = "decode"
    /\ framesOut < MaxFrames
    /\ framesOut' = framesOut + 1
    /\ frame_indx' = frame_indx + 1
    /\ decodedLog' = Append(decodedLog, <<>>)
    /\ UNCHANGED <<cfgVars, prevRun, workerVars, prodPc, stats, frame_buffer, gateHeld, prev_time,
                   ftime, lastTime, segVars, histVars>>

\* VideoSampler.sample: one iteration of the decode loop on a timestamped frame
BaseDecodeFrame ==
    /\ prodPc = "decode"
    /\ engine = "base"
    /\ framesOut < MaxFrames
    /\ framesOut' = framesOut + 1
    /\ \E t \in lastTime..MaxTime :
         /\ lastTime' = t
         /\ decodedLog' = Append(decodedLog, <<t>>)
         /\ IntervalFilter(t)
    /\ frame_indx' = frame_indx + 1
    /\ UNCHANGED <<cfgVars, prevRun, callerVars, prodPc, ftime, segVars, flushed, runEnd>>

\* SegmentSampler.sample: the decoder hands out a timestamped frame
SegDecodeFrame ==
    /\ prodPc = "decode"
    /\ engine = "segment"
    /\ framesOut < MaxFrames
    /\ framesOut' = framesOut + 1
    /\ \E t \in lastTime..MaxTime :
         /\ lastTime' = t
         /\ decodedLog' = Append(decodedLog, <<t>>)
         /\ ftime' = t
    /\ prodPc' = "seek"
    /\ UNCHANGED <<cfgVars, prevRun, workerVars, stats, frame_buffer, gateHeld, prev_time,
                   frame_indx, segVars, histVars>>

\* ftime > segment_boundary_end_sec
BeyondSegmentEnd(t) == t > segment_boundary_end_sec

\* mutant: the "not yet in segment" test is missing
NotYetInSegmentUnchecked(t) == FALSE

\* mutant: the "not yet in segment" test lets a frame at the start boundary in
NotYetInSegmentStrict(t) == t < segment_boundary_start_sec

\* ftime <= segment_boundary_start_sec
NotYetInSegment(t) == t <= segment_boundary_start_sec

\* SegmentSampler.sample: one turn of `while ftime > segment_boundary_end_sec`
SegSeek ==
    /\ prodPc = "seek"
    /\ BeyondSegmentEnd(ftime)
    /\ \/ /\ PullSegment
          /\ UNCHANGED prodPc
       \/ /\ PullExhausted           \* absolute_stop: leave the decode loop
          /\ prodPc' = "flush"
    /\ UNCHANGED <<cfgVars, prevRun, decodedLog, workerVars, engineVars, histVars>>

\* SegmentSampler.sample: the frame is not beyond the current segment's end
SegClassify ==
    /\ prodPc = "seek"
    /\ ~BeyondSegmentEnd(ftime)
    /\ \/ /\ NotYetInSegment(ftime)
          /\ UNCHANGED <<stats, frame_buffer, gateHeld, prev_time, q, enq,
                         classified, sumN, groups>>
       \/ /\ ~NotYetInSegment(ftime)
          /\ IntervalFilter(ftime)
    /\ frame_indx' = frame_indx + 1
    /\ prodPc' = "decode"
    /\ UNCHANGED <<cfgVars, prevRun, decodedLog, callerVars, ftime, decoderVars, segVars, flushed, runEnd>>

\* container.decode(stream) is exhausted
DecodeEnd ==
    /\ prodPc = "decode"
    /\ prodPc' = "flush"
    /\ UNCHANGED <<cfgVars, prevRun, decodedLog, workerVars, engineVars, segVars, histVars>>

\* mutant: sample() answers a recognized decode error by going on to flush_buffer
DecodeErrorFlushes ==
    /\ prodPc = "decode"
    /\ prodPc' = "flush"
    /\ runEnd' = "failed"
    /\ UNCHANGED <<cfgVars, prevRun, decodedLog, workerVars, engineVars, segVars, enq, classified,
                   sumN, groups, flushed>>

\* container.decode(stream) raises
DecodeError ==
    /\ prodPc = "decode"
    /\ \E kind \in ErrorKinds : WriteQueueExcept(kind)
    /\ UNCHANGED <<cfgVars, prevRun, decodedLog, callerVars, engineVars, segVars, classified, sumN, groups, flushed>>

\* flush_buffer: one group of frame_buffer.final_flush()
FlushGroup ==
    /\ prodPc = "flush"
    /\ frame_buffer # <<>>
    /\ frame_buffer' = Tail(frame_buffer)
    /\ \E gc \in GateChoices :
         /\ GateCallAllowed(gateHeld, gc)
         /\ LET gated_obj == GateCall(gateHeld, Head(frame_buffer), gc) IN
            /\ gateHeld' = gated_obj.held
            /\ stats' = [stats EXCEPT !.produced = @ + 1, !.gated = @ + gated_obj.N]
            /\ sumN' = sumN + gated_obj.N
            /\ groups' = groups + 1
            /\ QueuePut(Yielded(gated_obj.frames))
    /\ flushed' = TRUE
    /\ UNCHANGED <<cfgVars, prevRun, decodedLog, callerVars, prodPc, prev_time, frame_indx, ftime, decoderVars,
                   segVars, classified, runEnd>>

\* mutant: flush_buffer yields the sentinel before what gate.flush() released
FlushGateSentinelFirst ==
    /\ prodPc = "flush"
    /\ frame_buffer = <<>>
    /\ \E fc \in FlushChoices :
         LET gated_obj == GateFlush(gateHeld, fc) IN
         /\ gateHeld' = gated_obj.held
         /\ stats' = [stats EXCEPT !.gated = @ + gated_obj.N]
         /\ sumN' = sumN + gated_obj.N
         /\ QueuePut(<<PROCESSING_DONE_ITERABLE>> \o Yielded(gated_obj.frames))
    /\ flushed' = TRUE
    /\ prodPc' = "done"
    /\ runEnd' = "completed"
    /\ UNCHANGED <<cfgVars, prevRun, decodedLog, callerVars, frame_buffer, prev_time, frame_indx,
                   ftime, decoderVars, segVars, classified, groups>>

\* flush_buffer: gate.flush() and the terminal sentinel
FlushGate ==
    /\ prodPc = "flush"
    /\ frame_buffer = <<>>
    /\ \E fc \in FlushChoices :
         LET gated_obj == GateFlush(gateHeld, fc) IN
         /\ gateHeld' = gated_obj.held
         /\ stats' = [stats EXCEPT !.gated = @ + gated_obj.N]
         /\ sumN' = sumN + gated_obj.N
         /\ QueuePut(Yielded(gated_obj.frames) \o <<PROCESSING_DONE_ITERABLE>>)
    /\ flushed' = TRUE
    /\ prodPc' = "done"
    /\ runEnd' = "completed"
    /\ UNCHANGED <<cfgVars, prevRun, decodedLog, callerVars, frame_buffer, prev_time, frame_indx,
                   ftime, decoderVars, segVars, classified, groups>>

\* ----------------------------------------------------------------- Worker
OutputPaths == {"", "out"}

\* mutant: launch does not check the configuration
ConfigRejectedNever(o) == FALSE

\* output_path and self.devnull
ConfigRejected(o) == o # "" /\ devnull

\* Worker.launch up to proc_thread.start()
Launch(o) ==
    /\ launchPc = "idle"
    /\ launches < MaxLaunches
    /\ launches' = launches + 1
    /\ output_path' = o
    /\ \/ /\ ConfigRejected(o)          \* raise ValueError
          /\ lastResult' = "ValueError"
          /\ UNCHANGED <<q, launchPc, consPc, dirs, persisted, reported, prodPc, engineVars,
                         segVars, histVars, decodedLog, prevRun>>
       \/ /\ ~ConfigRejected(o)
          /\ dirs' = IF o # "" THEN dirs \cup {o} ELSE dirs
          /\ launchPc' = "running"
          /\ prodPc' = "start"
          /\ consPc' = "reading"
          /\ lastResult' = "none"
          \* the histories and the run's locals start anew
          /\ persisted' = <<>>
          /\ reported' = <<>>
          /\ enq' = <<>>
          /\ classified' = <<>>
          /\ pulled' = <<>>
          /\ sumN' = 0
          /\ groups' = 0
          /\ flushed' = FALSE
          /\ runEnd' = "none"
          /\ decodedLog' = <<>>
          /\ prevRun' = [end |-> runEnd, stats |-> stats]
          /\ prev_time' = PrevTimeInit
          /\ frame_indx' = 0
          /\ ftime' = -1
          /\ lastTime' = 0
          /\ UNCHANGED <<q, stats, frame_buffer, gateHeld, framesOut, segPulled, segExhausted,
                         segLastStart, segment_boundary_start_sec,
                         segment_boundary_end_sec>>
    /\ UNCHANGED cfgVars

\* mutant: the queue hands out the newest batch first
QueueGetLifo(queue) == [item |-> queue[Len(queue)], rest |-> SubSeq(queue, 1, Len(queue) - 1)]

\* q.get(): the queue is FIFO
QueueGet(queue) == [item |-> Head(queue), rest |-> Tail(queue)]

\* the frame.save call of queue_reader
SaveCall(frame_object) ==
    [dir |-> output_path, name |-> frame_object.frame_time, frame_object |-> frame_object]

\* mutant: queue_reader saves without looking at devnull
RECURSIVE ReadBatchIgnoresDevnull(_)
ReadBatchIgnoresDevnull(batch) ==
    IF batch = <<>> THEN [saved |-> <<>>, ended |-> FALSE]
    ELSE IF IsTerminal(Head(batch)) THEN [saved |-> <<>>, ended |-> TRUE]
    ELSE LET rest == ReadBatchIgnoresDevnull(Tail(batch))
             fo == Head(batch)
         IN [saved |-> (IF fo.frame # "none" /\ fo.frame = "image"
                        THEN <<SaveCall(fo)>> ELSE <<>>) \o rest.saved,
             ended |-> rest.ended]

\* queue_reader's `for frame_object in batch`: the saves made, and whether the
\* loop returned on a terminal object
RECURSIVE ReadBatch(_)
ReadBatch(batch) ==
    IF batch = <<>> THEN [saved |-> <<>>, ended |-> FALSE]
    ELSE IF IsTerminal(Head(batch)) THEN [saved |-> <<>>, ended |-> TRUE]
    ELSE LET rest == ReadBatch(Tail(batch))
             fo == Head(batch)
         IN [saved |-> (IF fo.frame # "none" /\ (~devnull /\ fo.frame = "image")
                        THEN <<SaveCall(fo)>> ELSE <<>>) \o rest.saved,
             ended |-> rest.ended]

\* queue_reader: one turn of `while True`
QueueReader ==
    /\ consPc = "reading"
    /\ \/ /\ q = <<>>                      \* time.sleep(read_interval)
          /\ UNCHANGED <<q, persisted, consPc>>
       \/ /\ q # <<>>
          /\ LET got == QueueGet(q)
                 r == ReadBatch(got.item)
             IN /\ q' = got.rest
                /\ persisted' = persisted \o r.saved
                /\ consPc' = IF r.ended THEN "returned" ELSE "reading"
    /\ UNCHANGED <<cfgVars, prevRun, decodedLog, launchPc, output_path, lastResult, launches, dirs,
                   reported, prodPc, engineVars, segVars, histVars>>

\* Worker.launch: queue_reader has returned, proc_thread.join()
LaunchJoin ==
    /\ launchPc = "running"
    /\ consPc = "returned"
    /\ prodPc \in {"done", "dead"}
    /\ launchPc' = "joined"
    /\ prodPc' = "idle"
    /\ UNCHANGED <<cfgVars, prevRun, decodedLog, q, consPc, output_path, lastResult, launches,
                   dirs, persisted, reported, engineVars, segVars, histVars>>

\* mutant: launch prints the stats right after starting the producer thread
LaunchReportEarly ==
    /\ launchPc = "running"
    /\ \E print_stats \in BOOLEAN :
         reported' = IF print_stats THEN <<stats>> ELSE <<>>
    /\ UNCHANGED <<cfgVars, prevRun, decodedLog, q, launchPc, consPc, lastResult, output_path,
                   launches, dirs, persisted, prodPc, engineVars, segVars, histVars>>

\* Worker.launch: `if self.cfg.print_stats:` the report, and the return
LaunchReport ==
    /\ launchPc = "joined"
    /\ \E print_stats \in BOOLEAN :
         reported' = IF print_stats THEN <<stats>> ELSE <<>>
    /\ launchPc' = "idle"
    /\ consPc' = "idle"
    /\ lastResult' = "returned"
    /\ UNCHANGED <<cfgVars, prevRun, decodedLog, q, output_path, launches, dirs, persisted,
                   prodPc, engineVars, segVars, histVars>>

Next ==
    \/ \E o \in OutputPaths : Launch(o)
    \/ SampleStart
    \/ DecodeArtifact
    \/ BaseDecodeFrame
    \/ SegDecodeFrame
    \/ SegSeek
    \/ SegClassify
    \/ DecodeEnd
    \/ DecodeError
    \/ FlushGroup
    \/ FlushGate
    \/ QueueReader
    \/ LaunchJoin
    \/ LaunchReport

Spec == Init /\ [][Next]_vars

\* ------------------------------------------- queue_reader on any queue content
\* what a batch can hold: an image, a non-image payload, no payload, the
\* terminal marker
ReaderFrameObjects ==
    {[frame |-> p, frame_time |-> 0, frame_indx |-> 0, end |-> FALSE] :
        p \in {"image", "array", "none"}}
    \cup {PROCESSING_DONE_ITERABLE[1]}

ReaderBatches ==
    UNION {[1..n -> ReaderFrameObjects] : n \in 0..MaxBatch}

ReaderQueues ==
    UNION {[1..n -> ReaderBatches] : n \in 0..MaxQueued}

\* queue_reader starts on a queue the producer has filled and left
InitReader ==
    /\ engine = "base"
    /\ devnull \in BOOLEAN
    /\ min_frame_interval_sec = 0
    /\ q \in ReaderQueues
    /\ enq = q
    /\ launchPc = "running"
    /\ consPc = "reading"
    /\ output_path = (IF devnull THEN "" ELSE "out")
    /\ lastResult = "none"
    /\ launches = 1
    /\ dirs = (IF devnull THEN {} ELSE {"out"})
    /\ persisted = <<>>
    /\ reported = <<>>
    /\ prodPc = "done"
    /\ stats = EmptyStats
    /\ frame_buffer = <<>>
    /\ gateHeld = <<>>
    /\ prev_time = PrevTimeInit
    /\ frame_indx = 0
    /\ ftime = -1
    /\ lastTime = 0
    /\ framesOut = 0
    /\ segPulled = 0
    /\ segExhausted = FALSE
    /\ segLastStart = 0
    /\ segment_boundary_start_sec = 0
    /\ segment_boundary_end_sec = 0
    /\ classified = <<>>
    /\ pulled = <<>>
    /\ sumN = 0
    /\ groups = 0
    /\ flushed = TRUE
    /\ runEnd = "completed"
    /\ decodedLog = <<>>
    /\ prevRun = [end |-> "none", stats |-> EmptyStats]

NextReader == QueueReader

SpecReader == InitReader /\ [][NextReader]_vars

\* ================================================================ claims
IsSentinelBatch(batch) == Len(batch) = 1 /\ IsTerminal(batch[1])

\* positions in enq of the terminal sentinel batches of the current run
SentinelPositions == {i \in 1..Len(enq) : IsSentinelBatch(enq[i])}

\* the frames submitted to the buffer in the current run, in order
Submitted == SelectSeq(classified, LAMBDA e : e.accepted)

\* the producer thread has terminated
ProducerTerminated == prodPc \in {"done", "dead"} \/ runEnd # "none"

\* the run of the current launch has begun (sample has reset the engine)
RunBegun == prodPc \in {"decode", "seek", "flush"} \/ runEnd # "none"

\* C1 (terminal guarantee): once the producer thread of a run has terminated,
\* the run has produced exactly one terminal sentinel batch and it is the last
\* batch the run produced (so it follows every batch of the buffer drain and
\* of the gate's flush); no run ever produces a second sentinel.
C1_TerminalGuarantee ==
    /\ Cardinality(SentinelPositions) <= 1
    /\ SentinelPositions # {} => Len(enq) \in SentinelPositions
    /\ ProducerTerminated => SentinelPositions # {}

\* C2 (launch always returns): while launch is waiting in queue_reader and the
\* producer thread has terminated, a terminal sentinel is still on the queue
\* for the consumer to observe; the consumer is never left polling a queue
\* that nothing will fill.
C2_LaunchReturns ==
    (launchPc = "running" /\ consPc = "reading" /\ ProducerTerminated)
        => \E i \in 1..Len(q) : IsSentinelBatch(q[i])

\* C3 (interval monotonicity): consecutive frames submitted to the buffer are
\* at least min_frame_interval_sec apart, and prev_time is the timestamp of the
\* last submitted frame (-10 before the first): a rejected frame leaves it alone.
C3_IntervalMonotonicity ==
    /\ \A i \in 1..(Len(Submitted) - 1) :
         Submitted[i + 1].frame_time - Submitted[i].frame_time >= min_frame_interval_sec
    /\ prev_time = IF Submitted = <<>> THEN PrevTimeInit
                   ELSE Last(Submitted).frame_time

\* a run that submitted a frame and then rejected the next one as too soon
C3_Witness ==
    /\ min_frame_interval_sec >= 1
    /\ Len(classified) = 2
    /\ classified[1].accepted
    /\ ~classified[2].accepted
    /\ prev_time = classified[1].frame_time

\* C4 (stats conservation): throughout a run and at its end decoded <= total,
\* produced <= decoded, and gated is the sum of the discard counts N of every
\* gate invocation and of the gate's flush.
C4_StatsConservation ==
    RunBegun =>
        /\ stats.decoded <= stats.total
        /\ stats.produced <= stats.decoded
        /\ stats.gated = sumN

\* a completed run with a rejected frame, a gated group and a discard
C4_Witness ==
    /\ runEnd = "completed"
    /\ stats.total > stats.decoded
    /\ stats.produced >= 1
    /\ stats.gated >= 1

\* C5 (segment containment): in the segment-aware engine every frame counted in
\* total (and so every frame submitted to the buffer) has its timestamp within
\* [start, end] of the segment current when it was classified; the current
\* segment only moves forward, and no generator position is pulled twice in a run.
C5_SegmentContainment ==
    engine = "segment" =>
        /\ \A i \in 1..Len(classified) :
             /\ classified[i].seg_start <= classified[i].frame_time
             /\ classified[i].frame_time <= classified[i].seg_end
             /\ \E j \in 1..Len(pulled) : pulled[j] = classified[i].seg
        /\ \A i \in 1..(Len(classified) - 1) : classified[i].seg <= classified[i + 1].seg
        /\ \A i \in 1..(Len(pulled) - 1) : pulled[i] < pulled[i + 1]

\* the tracker has moved on to the second segment of the run and a frame
\* inside that segment has been counted and submitted
C5_Witness ==
    /\ engine = "segment"
    /\ Len(pulled) = 2
    /\ \E i \in 1..Len(classified) :
         /\ classified[i].seg = pulled[2]
         /\ classified[i].accepted

\* what a run's own events amount to: the counters a fresh engine would report
RunCounts ==
    [total |-> Len(classified), decoded |-> Len(Submitted),
     produced |-> groups, gated |-> sumN]

\* C6 (idempotent reset): when a completed run follows a completed run on the
\* same engine, the stats at its end are the counts of the second run alone.
C6_IdempotentReset ==
    (prevRun.end = "completed" /\ runEnd = "completed") => stats = RunCounts

\* a second completed run whose counts differ from those the first run left
C6_Witness ==
    /\ prevRun.end = "completed"
    /\ runEnd = "completed"
    /\ prevRun.stats.total >= 1
    /\ prevRun.stats.produced >= 1
    /\ stats.total >= 1
    /\ stats.produced = 0

\* C7 (configuration error): a launch with a non-empty output directory on a
\* devnull Worker raises ValueError and changes nothing else: no thread, no
\* decoded frame, nothing queued, no directory, the same stats.
C7_ConfigError ==
    [][(launches' = launches + 1 /\ devnull /\ output_path' # "")
         => /\ lastResult' = "ValueError"
            /\ UNCHANGED <<launchPc, prodPc, consPc, q, enq, dirs, persisted, stats,
                           frame_buffer, gateHeld, framesOut, frame_indx, segPulled>>]_vars

\* the configuration error raised on a Worker whose engine has run before
C7_Witness ==
    /\ lastResult = "ValueError"
    /\ devnull
    /\ output_path # ""
    /\ stats.total >= 1
    /\ dirs = {}

\* the last launch call is the one whose run the histories describe
LastLaunchRan == lastResult # "ValueError"

\* C8 (producer failure path): after a recognized error in the producer thread
\* the run's last batch is its one terminal sentinel, the thread has ended in
\* the handler, the consumer still has the sentinel ahead of it or has returned
\* on it leaving the queue empty, and launch returns normally.
C8_ProducerFailurePath ==
    (runEnd = "failed" /\ LastLaunchRan) =>
        /\ Cardinality(SentinelPositions) = 1
        /\ Len(enq) \in SentinelPositions
        /\ prodPc \in {"done", "idle"}
        /\ consPc = "reading" => (q # <<>> /\ IsSentinelBatch(Last(q)))
        /\ consPc # "reading" => q = <<>>
        /\ launchPc = "idle" => lastResult = "returned"

\* launch has returned from a run that failed after producing a batch
C8_Witness ==
    /\ runEnd = "failed"
    /\ lastResult = "returned"
    /\ Len(enq) >= 2

\* C9 as stated: after a recognized failure the sentinel is the only batch of the run
C9_OnlySentinelProduced ==
    (runEnd = "failed" /\ LastLaunchRan) => enq = <<PROCESSING_DONE_ITERABLE>>

\* C9 (fail closed, amended): the step on which a recognized error ends the run
\* adds exactly the terminal sentinel to what the run had produced and invokes
\* neither the gate nor a flush (the frames held by the buffer of a decoding run
\* and by the gate stay where they are), and nothing more is produced, flushed
\* or counted for that run afterwards.
C9_FailClosed ==
    [][/\ (runEnd # "failed" /\ runEnd' = "failed")
            => /\ enq' = Append(enq, PROCESSING_DONE_ITERABLE)
               /\ SentinelPositions = {}
               /\ ~flushed'
               /\ UNCHANGED <<gateHeld, sumN, groups>>
               /\ prodPc = "decode" => UNCHANGED <<frame_buffer, stats>>
       /\ (runEnd = "failed" /\ launches' = launches)
            => UNCHANGED <<enq, frame_buffer, gateHeld, stats, flushed, runEnd>>]_vars

\* a run that failed after producing a batch, with a frame still in the buffer
C9_Witness ==
    /\ runEnd = "failed"
    /\ LastLaunchRan
    /\ Len(enq) >= 2
    /\ frame_buffer # <<>>

\* the batches the consumer has taken off the queue
Consumed == SubSeq(enq, 1, Len(enq) - Len(q))

\* the save calls owed to a sequence of frame objects
SavesOf(frame_objects) ==
    LET images == SelectSeq(frame_objects,
                            LAMBDA fo : ~IsTerminal(fo) /\ fo.frame = "image")
    IN [i \in 1..Len(images) |-> SaveCall(images[i])]

\* C10 (exactly-once, in-order consumption): in persist mode the queue is always
\* the not yet consumed tail of what the producer put, the saves made are those
\* of the image frames of the consumed batches, each once, in queue order and
\* batch order, and when launch has returned every batch has been consumed.
C10_ExactlyOnceInOrder ==
    (~devnull /\ LastLaunchRan) =>
        /\ Len(q) <= Len(enq)
        /\ q = SubSeq(enq, Len(enq) - Len(q) + 1, Len(enq))
        /\ persisted = SavesOf(Flatten(Consumed))
        /\ lastResult = "returned" => q = <<>>

\* launch has returned having persisted two frames of one batch
C10_Witness ==
    /\ ~devnull
    /\ lastResult = "returned"
    /\ Len(persisted) = 2
    /\ \E i \in 1..Len(enq) : Len(enq[i]) = 2

\* C11: discard mode.  Whatever batches are on the queue, a devnull Worker
\* persists nothing; a frame object is persisted only if devnull is off and its
\* payload is an image; and the terminal frame object ends the loop, so that
\* nothing after it, in its batch or on the queue, is looked at.
FirstTerminal(frame_objects) ==
    IF \E i \in 1..Len(frame_objects) : IsTerminal(frame_objects[i])
    THEN CHOOSE i \in 1..Len(frame_objects) :
            /\ IsTerminal(frame_objects[i])
            /\ \A j \in 1..(i - 1) : ~IsTerminal(frame_objects[j])
    ELSE Len(frame_objects) + 1

C11_DiscardMode ==
    LET flat == Flatten(Consumed)
        seen == SubSeq(flat, 1, FirstTerminal(flat) - 1)
    IN /\ devnull => persisted = <<>>
       /\ \A i \in 1..Len(persisted) :
             ~devnull /\ persisted[i].frame_object.frame = "image"
       /\ persisted = (IF devnull THEN <<>> ELSE SavesOf(seen))
       /\ (consPc = "returned") <=> (FirstTerminal(flat) <= Len(flat))

C11_Witness ==
    /\ devnull
    /\ consPc = "returned"
    /\ q # <<>>
    /\ persisted = <<>>
    /\ \E i \in 1..Len(Consumed) : \E j \in 1..Len(Consumed[i]) :
          Consumed[i][j].frame = "image"
    /\ LET last == Consumed[Len(Consumed)]
       IN Len(last) = 2 /\ IsTerminal(last[1]) /\ last[2].frame = "image"

\* a step of SegmentSampler.sample on the frame being classified
SeekStep == prodPc = "seek" /\ (segPulled' # segPulled \/ segExhausted' # segExhausted)

ClassifyStep == prodPc = "seek" /\ prodPc' = "decode"

\* the producer has counted, submitted and put nothing
FrameSkipped == UNCHANGED <<stats, prev_time, frame_buffer, gateHeld, enq, classified>>

\* C12 as stated (segment boundary tie-break): a frame whose timestamp equals
\* the current segment's start or end boundary is inside the segment, so it is
\* neither advanced past nor skipped as not yet in segment: it is counted.
C12_BoundaryFramesInside ==
    [][(/\ prodPc = "seek"
        /\ \/ ftime = segment_boundary_start_sec
           \/ ftime = segment_boundary_end_sec)
       => /\ ~SeekStep
          /\ ClassifyStep => stats'.total = stats.total + 1]_vars

\* C12 amended: the end boundary is inclusive and the start boundary is
\* exclusive.  A frame at the end boundary is not advanced past, and is counted
\* when it lies after the segment's start; a frame at the start boundary is
\* skipped as not yet in segment, changing no counter, prev_time, buffer or gate.
C12_TieBreak ==
    [][/\ (prodPc = "seek" /\ ftime = segment_boundary_end_sec) => ~SeekStep
       /\ (/\ ClassifyStep
           /\ ftime = segment_boundary_end_sec
           /\ ftime > segment_boundary_start_sec)
          => /\ stats'.total = stats.total + 1
             /\ Len(classified') = Len(classified) + 1
             /\ Last(classified').frame_time = ftime
       /\ (ClassifyStep /\ ftime = segment_boundary_start_sec)
          => FrameSkipped]_vars

\* the first frame of a run lay on its segment's start boundary, and was skipped
C12_Witness ==
    /\ engine = "segment"
    /\ prodPc = "decode"
    /\ frame_indx = 1
    /\ ftime >= 0
    /\ ftime = segment_boundary_start_sec
    /\ ftime = segment_boundary_end_sec
    /\ stats.total = 0
    /\ classified = <<>>

\* C13 (first frame passes): in every run, whatever min_frame_interval_sec and
\* the first timestamp are, the first frame that reaches the interval filter
\* passes it and is submitted to the buffer.
C13_FirstFramePasses ==
    classified # <<>> => classified[1].accepted

\* the frames the greedy rule accepts from the frames handed out by the decoder
\* from decode position pos on, prev being the time of the last accepted frame
RECURSIVE GreedyAccept(_, _, _)
GreedyAccept(frames, pos, prev) ==
    IF frames = <<>> THEN <<>>
    ELSE IF Head(frames) = <<>> THEN GreedyAccept(Tail(frames), pos + 1, prev)
    ELSE LET t == Head(frames)[1] IN
         IF t - prev >= min_frame_interval_sec
         THEN <<[frame_time |-> t, frame_indx |-> pos]>> \o GreedyAccept(Tail(frames), pos + 1, t)
         ELSE GreedyAccept(Tail(frames), pos + 1, prev)

\* C14 (interval filter result): in the base engine the frames submitted to the
\* buffer are exactly those the greedy rule accepts (a frame is accepted iff its
\* timestamp minus that of the last accepted frame, initially -10, is at least
\* min_frame_interval_sec), each with its zero-based decode position as
\* frame_indx; total is the number of timestamped frames decoded, decoded the
\* number of accepted ones; null and timestamp-less frames change no counter.
C14_IntervalFilterResult ==
    (engine = "base" /\ RunBegun) =>
        LET expected == GreedyAccept(decodedLog, 0, PrevTimeInit)
            timed == SelectSeq(decodedLog, LAMBDA f : f # <<>>)
        IN /\ [i \in 1..Len(Submitted) |->
                 [frame_time |-> Submitted[i].frame_time,
                  frame_indx |-> Submitted[i].frame_indx]] = expected
           /\ stats.total = Len(timed)
           /\ stats.decoded = Len(expected)
           /\ frame_indx = Len(decodedLog)

\* a completed run in which the decoder handed out a null frame and then a
\* frame that was accepted: it carries decode position 1, and total is 1
C14_Witness ==
    /\ engine = "base"
    /\ runEnd = "completed"
    /\ min_frame_interval_sec = 1
    /\ Len(decodedLog) = 2
    /\ decodedLog[1] = <<>>
    /\ Len(Submitted) = 1
    /\ Submitted[1].frame_indx = 1
    /\ stats.total = 1
    /\ stats.decoded = 1

\* C15 (frames outside segments): in the segment-aware engine a frame beyond
\* the current segment's end is not classified before the tracker has advanced
\* (one segment per turn of the advance loop, any number of turns, or to the
\* end of the run when the segments are exhausted), and advancing counts
\* nothing; a frame that then does not exceed the current segment's start is
\* skipped without changing total, decoded, produced, gated or prev_time and
\* without reaching the buffer; any other frame is counted in total.
C15_OutsideSegments ==
    [][/\ (prodPc = "seek" /\ ftime > segment_boundary_end_sec)
            => /\ ~ClassifyStep
               /\ FrameSkipped
               /\ prodPc' # prodPc => (prodPc' = "flush" /\ segExhausted')
               /\ segPulled' # segPulled
                    => /\ segPulled' = segPulled + 1
                       /\ pulled' = Append(pulled, segPulled')
       /\ (ClassifyStep /\ ftime <= segment_boundary_start_sec)
            => FrameSkipped
       /\ (ClassifyStep /\ ftime > segment_boundary_start_sec)
            => /\ ftime <= segment_boundary_end_sec
               /\ stats'.total = stats.total + 1]_vars

\* the first frame of a run lay beyond the first segment and before the second:
\* the tracker advanced to the second segment and the frame was skipped
C15_Witness ==
    /\ engine = "segment"
    /\ prodPc = "decode"
    /\ Len(pulled) = 2
    /\ Len(decodedLog) = 1
    /\ decodedLog[1] # <<>>
    /\ frame_indx = 1
    /\ decodedLog[1][1] <= segment_boundary_start_sec
    /\ stats = EmptyStats
    /\ prev_time = PrevTimeInit
    /\ frame_buffer = <<>>
    /\ classified = <<>>

\* C16 (segment exhaustion is normal termination): whenever a pull from the
\* segment sequence signals exhaustion, the pull made before decoding begins
\* and a pull on a sequence an earlier run consumed included, no error is
\* raised: the run goes on to flush_buffer, which ends it with the sentinel.
C16_ExhaustionEndsRunNormally ==
    [][(/\ engine = "segment"
        /\ prodPc \in {"start", "seek"}
        /\ prodPc' # prodPc
        /\ segExhausted')
       => /\ prodPc' = "flush"
          /\ runEnd' = "none"]_vars

\* C17 (empty batches suppressed): no batch of zero frame objects is ever
\* yielded, put on the queue or handed to the consumer, whether the gate was
\* invoked on a frame, on a drained buffer group or flushed; the N of each of
\* these invocations is added to gated all the same.
C17_EmptyBatchesSuppressed ==
    /\ \A i \in 1..Len(enq) : Len(enq[i]) >= 1
    /\ \A i \in 1..Len(q) : Len(q[i]) >= 1
    /\ RunBegun => stats.gated = sumN

\* a completed run whose gate was invoked on a frame and on a drained group and
\* returned no frames each time: the sentinel is the only batch, gated is not 0
C17_Witness ==
    /\ runEnd = "completed"
    /\ groups >= 2
    /\ stats.gated >= 1
    /\ enq = <<PROCESSING_DONE_ITERABLE>>

\* C18 (no state leak between runs): whatever run came before on the same
\* engine, completed or abandoned part-way, every frame in a batch of the
\* current run is a frame the current run itself decoded and submitted to the
\* buffer; nothing the buffer or the gate kept from an earlier run comes out.
C18_NoStateLeak ==
    \A i \in 1..Len(enq) : \A j \in 1..Len(enq[i]) :
        ~IsTerminal(enq[i][j]) =>
            \E k \in 1..Len(Submitted) :
                /\ Submitted[k].frame_time = enq[i][j].frame_time
                /\ Submitted[k].frame_indx = enq[i][j].frame_indx

\* C19 (write-then-join-then-read): the stats change only on steps of the
\* producer thread of a launch in progress, never on a step of the calling
\* thread; the calling thread reads them for its report only after the join,
\* when the producer thread has terminated and can take no further step, and
\* what it reads are the final stats of the run.
C19_WriteJoinRead ==
    [][/\ stats' # stats
            => /\ launchPc = "running"
               /\ prodPc \in {"start", "decode", "seek", "flush"}
               /\ UNCHANGED <<launchPc, consPc, launches, persisted, reported>>
       /\ reported' # reported
            => /\ reported' = <<>> \/ reported' = <<stats>>
               /\ reported' # <<>> => (launchPc = "joined" /\ prodPc = "idle")
               /\ UNCHANGED stats
       /\ launchPc = "joined"
            => /\ prodPc = "idle"
               /\ runEnd # "none"
               /\ UNCHANGED stats]_vars

\* launch has returned after reporting the stats of a run that counted frames
C19_Witness ==
    /\ launchPc = "idle"
    /\ lastResult = "returned"
    /\ reported = <<stats>>
    /\ stats.total >= 1
    /\ stats.produced >= 1

\* C20 (queue drained on return): whenever launch returns, having joined the
\* producer thread, the Worker's one queue is empty and the producer thread has
\* finished, and a launch that starts finds the queue empty; so the queue of a
\* launch in progress holds only batches its own run put, and no consumer sees
\* a batch or a sentinel left over from an earlier launch.
C20_QueueDrainedOnReturn ==
    /\ launchPc \in {"idle", "joined"} => (q = <<>> /\ prodPc = "idle")
    /\ consPc = "returned" => q = <<>>
    /\ launchPc = "running"
         => /\ Len(q) <= Len(enq)
            /\ q = SubSeq(enq, Len(enq) - Len(q) + 1, Len(enq))

\* the second launch on a Worker has returned, each of the two runs having put
\* a batch of frames before its sentinel
C20_Witness ==
    /\ launches = 2
    /\ launchPc = "idle"
    /\ lastResult = "returned"
    /\ prevRun.end # "none"
    /\ prevRun.stats.produced >= 1
    /\ Len(enq) >= 2
    /\ q = <<>>
====
